---- MODULE Spec2Model ----
(***************************************************************************)
(* Model of the Merkle tree engine of web3sdks/go-sdk (package merkle,     *)
(* src/unnamed/part_008): New, leafGen, proofGen, treeBuild, fixOdd,       *)
(* updateProofs, Verify and GenerateProof, treeBuild with the goroutine    *)
(* that fills leafMap, and the handlers of the parallel computation.       *)
(*                                                                         *)
(* Byte strings are sequences of symbols.  A symbol is either one unit of  *)
(* caller data (d = FALSE, numbered by v) or a whole digest (d = TRUE).    *)
(* The hash function is collision-free: the digest of s is the one-symbol  *)
(* string that carries s, so H is injective on byte strings, and Go's      *)
(* append(x, y...) is the concatenation x \o y.  (Slices are modelled as   *)
(* values: a Serialize that returns slices with spare capacity over a      *)
(* shared array is outside the model.)  A Config carries its HashFunc: nil, *)
(* or a function that returns an error on the inputs of one kind; a block  *)
(* whose Serialize returns an error is the block BadBlock; a failing read  *)
(* of the random source is the draw 0.                                     *)
(***************************************************************************)
EXTENDS Integers, Sequences, FiniteSets, TLC

\* Largest number of data blocks handed to New.
MaxBlocks == 4
\* Number of distinct values the random source can return for a dummy node.
NumDummies == 2
\* Longest sibling list handed to the package-level Verify.
MaxSibs == 2
\* Largest number of data blocks in the runs that look at Depth.
MaxDepthBlocks == 17
\* Largest number of data blocks in the runs that look at the proofs.
MaxProofBlocks == 6
\* Largest number of data blocks in the runs that follow treeBuild step by step.
MaxBuildBlocks == 3
\* Largest number of workers, and largest length of the level they work on.
MaxRoutines == 3
MaxPoolLen == 6

ModeProofGen == 0
ModeTreeBuild == 1
ModeProofGenAndTreeBuild == 2
\* A Mode value that is none of the three defined ones.
ModeInvalid == ModeProofGenAndTreeBuild + 1
\* Width of Proof.Path (uint32).
PathBits == 32

Pow2(k) == 2 ^ k

---------------------------------------------------------------------------
\* uint32 values of Proof.Path, kept as the set of the positions of their 1 bits

RECURSIVE AddBit(_, _)
\* path + (1 << k), with carry, modulo 2^PathBits.
AddBit(path, k) ==
    IF k >= PathBits THEN path
    ELSE IF k \notin path THEN path \cup {k}
    ELSE AddBit(path \ {k}, k + 1)

\* path & 1
LowBit(path) == IF 0 \in path THEN 1 ELSE 0

\* The shift left out: every sibling is combined by bit 0.
ShiftRight_None(path) == path

\* path >> 1
ShiftRight(path) == {k - 1 : k \in path \ {0}}

---------------------------------------------------------------------------
\* Byte strings, the hash function and bytes.Compare

Byte(i) == [d |-> FALSE, v |-> i, in |-> <<>>]

\* One unit of caller data as a byte string.
Str(i) == << Byte(i) >>

\* HashFuncType: an injective function from byte strings to digests.
H(s) == << [d |-> TRUE, v |-> 0, in |-> s] >>

\* getDummyHash: defaultHashLen random bytes, the k-th value the source can give.
getDummyHash(k) == << [d |-> TRUE, v |-> k, in |-> <<>>] >>

\* The block whose Serialize returns an error.
BadBlock == << Byte(0) >>

\* Config.HashFunc left nil by the caller.
NilFunc == [nil |-> TRUE, fails |-> "never"]

\* defaultHashFunc: it returns no error.
defaultHashFunc == [nil |-> FALSE, fails |-> "never"]

\* The inputs on which the hash function hf returns an error: none, all,
\* those that hold a digest (every input above the leaf level), or those
\* that begin with the data unit 3.
Fails(hf, s) ==
    CASE hf.fails = "never"  -> FALSE
      [] hf.fails = "always" -> TRUE
      [] hf.fails = "digest" -> \E i \in 1..Len(s) : s[i].d
      [] hf.fails = "third"  -> Len(s) > 0 /\ s[1] = Byte(3)

\* What hf returns on s: the digest and no error, or nil and an error.
HashFunc(hf, s) == IF Fails(hf, s) THEN [val |-> <<>>, err |-> TRUE]
                   ELSE [val |-> H(s), err |-> FALSE]

RECURSIVE Compare(_, _)
RECURSIVE SymCompare(_, _)
\* Order of two symbols: caller data by number, data below digests, digests
\* by what they carry (one total order of the digests, as any hash induces).
SymCompare(x, y) ==
    IF x.d # y.d THEN (IF y.d THEN -1 ELSE 1)
    ELSE IF x.v # y.v THEN (IF x.v < y.v THEN -1 ELSE 1)
    ELSE Compare(x.in, y.in)

\* bytes.Compare: lexicographic, a proper prefix is smaller.
Compare(a, b) ==
    IF Len(a) = 0 /\ Len(b) = 0 THEN 0
    ELSE IF Len(a) = 0 THEN -1
    ELSE IF Len(b) = 0 THEN 1
    ELSE LET c == SymCompare(Head(a), Head(b))
         IN IF c # 0 THEN c ELSE Compare(Tail(a), Tail(b))

\* 0-based indexing of a Go slice.
At(s, i) == s[i + 1]

min(a, b) == IF a < b THEN a ELSE b

---------------------------------------------------------------------------
\* calTreeDepth

RECURSIVE Log2Floor(_)
Log2Floor(n) == IF n <= 1 THEN 0 ELSE 1 + Log2Floor(n \div 2)

\* calTreeDepth without the step up for a count that is no power of two.
calTreeDepth_Trunc(blockLen) == Log2Floor(blockLen)

\* math.Log2(n) is an integer exactly when n is a power of two.
calTreeDepth(blockLen) ==
    IF Pow2(Log2Floor(blockLen)) # blockLen
    THEN Log2Floor(blockLen) + 1
    ELSE Log2Floor(blockLen)

---------------------------------------------------------------------------
\* leafGen

RECURSIVE Insert(_, _)
Insert(s, x) ==
    IF Len(s) = 0 THEN << x >>
    ELSE IF Compare(x, Head(s)) < 0 THEN << x >> \o s
    ELSE << Head(s) >> \o Insert(Tail(s), x)

RECURSIVE SortBytes(_)
\* sort.Slice with bytes.Compare(leaves[i], leaves[j]) < 0.
SortBytes(s) == IF Len(s) = 0 THEN <<>> ELSE Insert(SortBytes(Tail(s)), Head(s))

\* leafGen that hashes what Serialize returns, as leafGenHandler does.
leafGen_Hashed(c, bl) ==
    IF \E i \in 1..Len(bl) : bl[i] = BadBlock THEN [leaves |-> <<>>, err |-> TRUE]
    ELSE LET hashed == [i \in 1..Len(bl) |-> H(bl[i])]
         IN [leaves |-> IF c.SortLeaves THEN SortBytes(hashed) ELSE hashed, err |-> FALSE]

\* A block is modelled by the bytes its Serialize returns; the leaves are
\* those bytes, the hash function is not applied.  The first Serialize that
\* fails ends leafGen with (nil, err).
leafGen(c, bl) ==
    IF \E i \in 1..Len(bl) : bl[i] = BadBlock THEN [leaves |-> <<>>, err |-> TRUE]
    ELSE [leaves |-> IF c.SortLeaves THEN SortBytes(bl) ELSE bl, err |-> FALSE]

---------------------------------------------------------------------------
\* fixOdd, initProofs, updateProofs

\* What getDummyHash returns at a level, env.dummy being the draws of one run
\* of New: the bytes drawn, or nil (with an error) for the draw 0.
Dum(env, lvl) ==
    IF lvl \in DOMAIN env.dummy /\ env.dummy[lvl] > 0
    THEN getDummyHash(env.dummy[lvl]) ELSE <<>>

\* fixOdd that pads with a dummy node whatever NoDuplicates says.
fixOdd_AlwaysDummy(c, buf, prevLen, dummy) ==
    IF prevLen % 2 = 0 THEN [buf |-> buf, prevLen |-> prevLen, err |-> FALSE]
    ELSE IF dummy = <<>> THEN [buf |-> <<>>, prevLen |-> 0, err |-> TRUE]
    ELSE IF Len(buf) < prevLen + 1
         THEN [buf |-> Append(buf, dummy), prevLen |-> prevLen + 1, err |-> FALSE]
         ELSE [buf |-> [buf EXCEPT ![prevLen + 1] = dummy], prevLen |-> prevLen + 1,
               err |-> FALSE]

\* dummy is what getDummyHash returns if it is called: nil says it failed.
fixOdd(c, buf, prevLen, dummy) ==
    IF prevLen % 2 = 0 THEN [buf |-> buf, prevLen |-> prevLen, err |-> FALSE]
    ELSE IF c.NoDuplicates /\ dummy = <<>> THEN [buf |-> <<>>, prevLen |-> 0, err |-> TRUE]
    ELSE LET appendNode == IF c.NoDuplicates THEN dummy ELSE At(buf, prevLen - 1)
         IN IF Len(buf) < prevLen + 1
            THEN [buf |-> Append(buf, appendNode), prevLen |-> prevLen + 1, err |-> FALSE]
            ELSE [buf |-> [buf EXCEPT ![prevLen + 1] = appendNode],
                  prevLen |-> prevLen + 1, err |-> FALSE]

initProofs(numLeaves) == [i \in 1..numLeaves |-> [Siblings |-> <<>>, Path |-> {}]]

\* updatePairProof with the path bit given to the right half of the batch.
updatePairProof_BitOnRight(proofs, buf, idx, batch, step) ==
    LET start1 == idx * batch
        end1   == min(start1 + batch, Len(proofs))
        start2 == start1 + batch
        end2   == min(start2 + batch, Len(proofs))
    IN [p \in 1..Len(proofs) |->
          IF p - 1 >= start1 /\ p - 1 < end1
          THEN [Siblings |-> Append(proofs[p].Siblings, At(buf, idx + 1)),
                Path |-> proofs[p].Path]
          ELSE IF p - 1 >= start2 /\ p - 1 < end2
          THEN [Siblings |-> Append(proofs[p].Siblings, At(buf, idx)),
                Path |-> AddBit(proofs[p].Path, step)]
          ELSE proofs[p]]

updatePairProof(proofs, buf, idx, batch, step) ==
    LET start1 == idx * batch
        end1   == min(start1 + batch, Len(proofs))
        start2 == start1 + batch
        end2   == min(start2 + batch, Len(proofs))
    IN [p \in 1..Len(proofs) |->
          IF p - 1 >= start1 /\ p - 1 < end1
          THEN [Siblings |-> Append(proofs[p].Siblings, At(buf, idx + 1)),
                Path |-> AddBit(proofs[p].Path, step)]
          ELSE IF p - 1 >= start2 /\ p - 1 < end2
          THEN [Siblings |-> Append(proofs[p].Siblings, At(buf, idx)),
                Path |-> proofs[p].Path]
          ELSE proofs[p]]

RECURSIVE updateProofsFrom(_, _, _, _, _)
updateProofsFrom(proofs, buf, bufLen, step, i) ==
    IF i >= bufLen THEN proofs
    ELSE updateProofsFrom(updatePairProof(proofs, buf, i, Pow2(step), step),
                          buf, bufLen, step, i + 2)

updateProofs(proofs, buf, bufLen, step) == updateProofsFrom(proofs, buf, bufLen, step, 0)

---------------------------------------------------------------------------
\* proofGen

\* The least member of a nonempty set of numbers.
Least(S) == CHOOSE x \in S : \A y \in S : x <= y

\* The slot at which a loop over the slots 1..n ends early, failing being the
\* slots whose call of the hash function fails; n + 1 when there is none.
StopAt(failing, n) == IF failing = {} THEN n + 1 ELSE Least(failing)

\* One round of the loop of proofGen: hash the pairs of buf[0..prevLen-1] into
\* buf[0..prevLen/2-1] (in place: slot idx>>1 is written after slots idx and
\* idx+1 are read, and before no later read), whatever the pair and SortPairs.
\* The first call of the hash function that fails leaves nil in its slot and
\* ends the round.
proofGenRound(c, buf, prevLen) ==
    LET failing == {k \in 1..(prevLen \div 2) :
                      Fails(c.HashFunc, At(buf, 2 * (k - 1)) \o At(buf, 2 * (k - 1) + 1))}
    IN [buf |-> [k \in 1..Len(buf) |->
                   IF k > prevLen \div 2 \/ k > StopAt(failing, prevLen \div 2) THEN buf[k]
                   ELSE IF k \in failing THEN <<>>
                   ELSE H(At(buf, 2 * (k - 1)) \o At(buf, 2 * (k - 1) + 1))],
        err |-> failing # {}]

RECURSIVE proofGenLoop(_, _, _, _, _, _, _, _)
\* The rest of a step of the loop once its pairs are hashed: fixOdd,
\* updateProofs, and the steps that follow.
proofGenNext(c, env, Depth, hashed, prevLen, proofs, step, levels) ==
    IF hashed.err
    THEN [Root |-> <<>>, Proofs |-> proofs, levels |-> levels, err |-> TRUE]
    ELSE LET fx == fixOdd(c, hashed.buf, prevLen \div 2, Dum(env, step))
         IN IF fx.err
            THEN [Root |-> <<>>, Proofs |-> proofs, levels |-> levels, err |-> TRUE]
            ELSE proofGenLoop(c, env, Depth, fx.buf, fx.prevLen,
                              updateProofs(proofs, fx.buf, fx.prevLen, step),
                              step + 1, Append(levels, SubSeq(fx.buf, 1, fx.prevLen)))

\* levels records buf[0..prevLen-1] as it stands after each call of fixOdd.
proofGenLoop(c, env, Depth, buf, prevLen, proofs, step, levels) ==
    IF step >= Depth
    THEN [Root   |-> HashFunc(c.HashFunc, At(buf, 0) \o At(buf, 1)).val,
          Proofs |-> proofs, levels |-> levels,
          err    |-> Fails(c.HashFunc, At(buf, 0) \o At(buf, 1))]
    ELSE proofGenNext(c, env, Depth, proofGenRound(c, buf, prevLen), prevLen,
                      proofs, step, levels)

proofGen(c, env, Depth, Leaves) ==
    LET fx == fixOdd(c, Leaves, Len(Leaves), Dum(env, 0))
    IN IF fx.err
       THEN [Root |-> <<>>, Proofs |-> initProofs(Len(Leaves)), levels |-> <<>>,
             err |-> TRUE]
       ELSE proofGenLoop(c, env, Depth, fx.buf, fx.prevLen,
                         updateProofs(initProofs(Len(Leaves)), fx.buf, Len(Leaves), 0),
                         1, << SubSeq(fx.buf, 1, fx.prevLen) >>)

---------------------------------------------------------------------------
\* treeBuild

\* The bytes handed to the hash function for the pair (a, b) of a level below
\* the last one.
PairInput(c, a, b) ==
    IF c.SortPairs THEN (IF Compare(a, b) < 0 THEN a \o b ELSE b \o a)
    ELSE a \o b

\* The parent of the pair (a, b) of a level below the last one.
TreeParent(c, a, b) ==
    IF a = b THEN a
    ELSE IF c.SortPairs
         THEN (IF Compare(a, b) < 0 THEN H(a \o b) ELSE H(b \o a))
         ELSE H(a \o b)

\* The hash of the two nodes of the last level.
RootHash(a, b) == H(a \o b)

\* leafMap with an entry at position i + 1 rather than i.
leafMapOf_OffByOne(Leaves, stored) ==
    [key \in {Leaves[i] : i \in 1..stored} |->
       CHOOSE i \in 1..stored :
          /\ Leaves[i] = key
          /\ \A j \in 1..stored : Leaves[j] = key => j <= i]

\* leafMap after the stores for i = 0..stored-1: a later store of the same
\* key replaces the earlier one.
leafMapOf(Leaves, stored) ==
    [key \in {Leaves[i] : i \in 1..stored} |->
       CHOOSE i \in 0..(stored - 1) :
          /\ At(Leaves, i) = key
          /\ \A j \in 0..(stored - 1) : At(Leaves, j) = key => j <= i]

\* The level above cur allocated with one slot per node of cur rather than
\* one per pair (make([][]byte, prevLen)); the slots after the pairs stay nil.
treeBuildLevel_PerNode(c, cur) ==
    [next |-> [k \in 1..Len(cur) |->
                 IF k <= Len(cur) \div 2
                 THEN TreeParent(c, At(cur, 2 * (k - 1)), At(cur, 2 * (k - 1) + 1))
                 ELSE <<>>],
     err  |-> FALSE]

\* The inner loop of treeBuild over the pairs of the level cur: the level
\* above it.  A failing call of the hash function leaves nil in its slot and
\* in the slots after it.
treeBuildLevel(c, cur) ==
    LET failing == {k \in 1..(Len(cur) \div 2) :
                      /\ At(cur, 2 * (k - 1)) # At(cur, 2 * (k - 1) + 1)
                      /\ Fails(c.HashFunc,
                               PairInput(c, At(cur, 2 * (k - 1)), At(cur, 2 * (k - 1) + 1)))}
    IN [next |-> [k \in 1..(Len(cur) \div 2) |->
                    IF k < StopAt(failing, Len(cur) \div 2)
                    THEN TreeParent(c, At(cur, 2 * (k - 1)), At(cur, 2 * (k - 1) + 1))
                    ELSE <<>>],
        err  |-> failing # {}]

RECURSIVE treeBuildLoop(_, _, _, _, _)
\* The rest of a step of the loop once level i+1 is computed: fixOdd, which
\* leaves the level nil when it fails, and the steps that follow.
treeBuildNext(c, env, Depth, tree, i, lv) ==
    IF lv.err THEN [tree |-> Append(tree, lv.next), err |-> TRUE]
    ELSE LET fx == fixOdd(c, lv.next, Len(lv.next), Dum(env, i + 1))
         IN IF fx.err THEN [tree |-> Append(tree, fx.buf), err |-> TRUE]
            ELSE treeBuildLoop(c, env, Depth, Append(tree, fx.buf), i + 1)

\* tree holds levels 0..i, each after its fixOdd; i counts as the loop does.
treeBuildLoop(c, env, Depth, tree, i) ==
    IF i >= Depth - 1 THEN [tree |-> tree, err |-> FALSE]
    ELSE treeBuildNext(c, env, Depth, tree, i, treeBuildLevel(c, At(tree, i)))

\* What treeBuild leaves in m once the loop has ended with tb; the levels the
\* loop did not reach are nil (make([][][]byte, m.Depth)).  env.stored is the
\* number of stores the goroutine that fills leafMap has made when treeBuild
\* returns early; a return without error waits for all of them.
treeBuildEnd(c, env, Depth, Leaves, tb) ==
    LET tree == [i \in 1..Depth |-> IF i <= Len(tb.tree) THEN tb.tree[i] ELSE <<>>]
        last == At(tree, Depth - 1)
    IN IF tb.err
       THEN [tree |-> tree, Root |-> <<>>, leafMap |-> leafMapOf(Leaves, env.stored),
             err |-> TRUE]
       ELSE IF Fails(c.HashFunc, At(last, 0) \o At(last, 1))
       THEN [tree |-> tree, Root |-> <<>>, leafMap |-> leafMapOf(Leaves, env.stored),
             err |-> TRUE]
       ELSE [tree |-> tree, Root |-> RootHash(At(last, 0), At(last, 1)),
             leafMap |-> leafMapOf(Leaves, Len(Leaves)), err |-> FALSE]

\* The fixOdd of the leaf level, the loop over the levels, and the Root.
treeBuildFrom(c, env, Depth, Leaves, fx) ==
    IF fx.err
    THEN treeBuildEnd(c, env, Depth, Leaves, [tree |-> << fx.buf >>, err |-> TRUE])
    ELSE treeBuildEnd(c, env, Depth, Leaves,
                      treeBuildLoop(c, env, Depth, << fx.buf >>, 0))

treeBuild(c, env, Depth, Leaves) ==
    treeBuildFrom(c, env, Depth, Leaves, fixOdd(c, Leaves, Len(Leaves), Dum(env, 0)))

RECURSIVE streamProofs(_, _, _)
\* The loop stopping one level short (i < len(m.tree) - 1).
streamProofs_SkipsLast(tree, proofs, i) ==
    IF i >= Len(tree) - 1 THEN proofs
    ELSE streamProofs(tree, updateProofs(proofs, At(tree, i), Len(At(tree, i)), i), i + 1)

\* The loop of New over the levels of the tree in ModeProofGenAndTreeBuild.
streamProofs(tree, proofs, i) ==
    IF i >= Len(tree) THEN proofs
    ELSE streamProofs(tree, updateProofs(proofs, At(tree, i), Len(At(tree, i)), i), i + 1)

---------------------------------------------------------------------------
\* New

\* What New returns: nil says that no tree is returned, err that an error is.
\* Config is the value the Config that m.Config points to had when New
\* returned.
NoTree == [nil |-> TRUE, err |-> FALSE, Depth |-> 0, Leaves |-> <<>>, tree |-> <<>>,
           leafMap |-> <<>>, Root |-> <<>>, Proofs |-> <<>>, levels |-> <<>>,
           Config |-> <<>>]

\* The caller's Config as New leaves it: a nil HashFunc is replaced by
\* defaultHashFunc once the number of blocks has been accepted (and a Mode of
\* 0 is set to ModeProofGen, which is 0).
NewConfig(c, bl) ==
    IF Len(bl) <= 1 THEN c
    ELSE IF c.HashFunc.nil THEN [c EXCEPT !.HashFunc = defaultHashFunc]
    ELSE c

\* m after proofGen has returned pg.
NewProofGen(m, pg) ==
    [m EXCEPT !.Root = pg.Root, !.Proofs = pg.Proofs, !.levels = pg.levels, !.err = pg.err]

\* m after treeBuild has returned tb, and after the loop that streams the
\* proofs from the levels when proofs says that the Mode asks for them.
NewTreeBuild(m, tb, proofs) ==
    [m EXCEPT !.Root = tb.Root, !.tree = tb.tree, !.leafMap = tb.leafMap, !.err = tb.err,
              !.Proofs = IF tb.err \/ ~proofs THEN <<>>
                         ELSE streamProofs(tb.tree, initProofs(Len(m.Leaves)), 0)]

\* New from the allocation of m on: m is returned with the error when
\* leafGen (lg), proofGen or treeBuild fails, and nil with an undefined Mode.
NewFrom(config, Depth, lg, env) ==
    LET m == [NoTree EXCEPT !.nil = FALSE, !.Depth = Depth, !.Leaves = lg.leaves,
                            !.Config = config]
    IN IF lg.err THEN [m EXCEPT !.err = TRUE]
       ELSE IF config.Mode = ModeProofGen
       THEN NewProofGen(m, proofGen(config, env, Depth, lg.leaves))
       ELSE IF config.Mode = ModeTreeBuild \/ config.Mode = ModeProofGenAndTreeBuild
       THEN NewTreeBuild(m, treeBuild(config, env, Depth, lg.leaves),
                         config.Mode = ModeProofGenAndTreeBuild)
       ELSE [NoTree EXCEPT !.err = TRUE]

New(c, bl, env) ==
    IF Len(bl) <= 1 THEN [NoTree EXCEPT !.err = TRUE]
    ELSE NewFrom(NewConfig(c, bl), calTreeDepth(Len(bl)), leafGen(NewConfig(c, bl), bl), env)

---------------------------------------------------------------------------
\* Verify

RECURSIVE VerifyFold_Swapped(_, _, _)
\* The loop with the two branches exchanged.
VerifyFold_Swapped(hash, path, sibs) ==
    IF Len(sibs) = 0 THEN hash
    ELSE LET n == Head(sibs)
         IN VerifyFold_Swapped(IF LowBit(path) = 1 THEN H(n \o hash) ELSE H(hash \o n),
                               ShiftRight(path), Tail(sibs))

RECURSIVE VerifyFold(_, _, _)
\* The loop over proof.Siblings: hash is the accumulator, path the bits left.
VerifyFold(hash, path, sibs) ==
    IF Len(sibs) = 0 THEN hash
    ELSE LET n == Head(sibs)
         IN VerifyFold(IF LowBit(path) = 1 THEN H(hash \o n) ELSE H(n \o hash),
                       ShiftRight(path), Tail(sibs))

RECURSIVE VerifyFoldCalls(_, _, _, _)
\* The calls of the hash function the loop makes before it ends: one for each
\* sibling, up to and including the first call that fails.
VerifyFoldCalls(hf, hash, path, sibs) ==
    IF Len(sibs) = 0 THEN [n |-> 0, err |-> FALSE]
    ELSE LET input == IF LowBit(path) = 1 THEN hash \o Head(sibs) ELSE Head(sibs) \o hash
             rest  == VerifyFoldCalls(hf, H(input), ShiftRight(path), Tail(sibs))
         IN IF Fails(hf, input) THEN [n |-> 1, err |-> TRUE]
            ELSE [n |-> 1 + rest.n, err |-> rest.err]

\* The accumulator before the first sibling is combined.
VerifyStart(data) == H(data)

\* Verify that serializes the block before it looks at its arguments: the
\* call of Serialize on a nil block panics.
Verify_SerializeFirst(in) ==
    IF in.blockNil THEN [ok |-> FALSE, err |-> FALSE, panic |-> TRUE, calls |-> 1]
    ELSE IF in.proofNil THEN [ok |-> FALSE, err |-> TRUE, panic |-> FALSE, calls |-> 1]
    ELSE [ok  |-> VerifyFold(VerifyStart(in.block), in.Path, in.Siblings) = in.root,
          err |-> FALSE, panic |-> FALSE, calls |-> 2 + Len(in.Siblings)]

\* in: blockNil and proofNil say that the argument is nil; block is what
\* Serialize returns, Siblings and Path are the fields of the proof, hashFunc
\* is the function passed (nil stands for defaultHashFunc).  calls counts the
\* calls of Serialize and of the hash function.
Verify(in) ==
    IF in.blockNil THEN [ok |-> FALSE, err |-> TRUE, panic |-> FALSE, calls |-> 0]
    ELSE IF in.proofNil THEN [ok |-> FALSE, err |-> TRUE, panic |-> FALSE, calls |-> 0]
    ELSE LET hf   == IF in.hashFunc.nil THEN defaultHashFunc ELSE in.hashFunc
             fold == VerifyFoldCalls(hf, VerifyStart(in.block), in.Path, in.Siblings)
         IN IF in.block = BadBlock
            THEN [ok |-> FALSE, err |-> TRUE, panic |-> FALSE, calls |-> 1]
            ELSE IF Fails(hf, in.block)
            THEN [ok |-> FALSE, err |-> TRUE, panic |-> FALSE, calls |-> 2]
            ELSE IF fold.err
            THEN [ok |-> FALSE, err |-> TRUE, panic |-> FALSE, calls |-> 2 + fold.n]
            ELSE [ok  |-> VerifyFold(VerifyStart(in.block), in.Path, in.Siblings) = in.root,
                  err |-> FALSE, panic |-> FALSE, calls |-> 2 + fold.n]

---------------------------------------------------------------------------
\* GenerateProof

\* The key under which GenerateProof looks the block up in leafMap.
LookupKey(blockByte) == H(blockByte)

RECURSIVE GenerateProofLoop(_, _, _, _, _)
\* The walk without idx >>= 1: the position in the leaf level is used at
\* every level.
GenerateProofLoop_NoShift(t, idx, i, path, siblings) ==
    IF i >= t.Depth THEN [err |-> FALSE, panic |-> FALSE, Path |-> path, Siblings |-> siblings]
    ELSE LET level == At(t.tree, i)
             sib   == IF idx % 2 = 1 THEN idx - 1 ELSE idx + 1
         IN IF sib >= Len(level)
            THEN [err |-> FALSE, panic |-> TRUE, Path |-> path, Siblings |-> siblings]
            ELSE GenerateProofLoop(t, idx, i + 1,
                                   IF idx % 2 = 1 THEN path ELSE AddBit(path, i),
                                   Append(siblings, At(level, sib)))

\* The walk up the levels; panic records an index outside the level.
GenerateProofLoop(t, idx, i, path, siblings) ==
    IF i >= t.Depth THEN [err |-> FALSE, panic |-> FALSE, Path |-> path, Siblings |-> siblings]
    ELSE LET level == At(t.tree, i)
             sib   == IF idx % 2 = 1 THEN idx - 1 ELSE idx + 1
         IN IF sib >= Len(level)
            THEN [err |-> FALSE, panic |-> TRUE, Path |-> path, Siblings |-> siblings]
            ELSE GenerateProofLoop(t, idx \div 2, i + 1,
                                   IF idx % 2 = 1 THEN path ELSE AddBit(path, i),
                                   Append(siblings, At(level, sib)))

\* What a call that returns (nil, err) gives: miss says that the error is
\* the one of a key that leafMap does not hold, m is the tree after the call.
NoProof(t, miss) ==
    [err |-> TRUE, panic |-> FALSE, Path |-> {}, Siblings |-> <<>>, miss |-> miss, m |-> t]

\* GenerateProof that enters the key it did not find (LoadOrStore for Load).
GenerateProof_StoresMiss(c, t, block) ==
    IF c.Mode # ModeTreeBuild /\ c.Mode # ModeProofGenAndTreeBuild THEN NoProof(t, FALSE)
    ELSE IF block = BadBlock THEN NoProof(t, FALSE)
    ELSE IF c.HashFunc.nil THEN [NoProof(t, FALSE) EXCEPT !.err = FALSE, !.panic = TRUE]
    ELSE IF Fails(c.HashFunc, block) THEN NoProof(t, FALSE)
    ELSE LET blockHash == LookupKey(block)
         IN IF blockHash \notin DOMAIN t.leafMap
            THEN NoProof([t EXCEPT !.leafMap =
                            [k \in DOMAIN t.leafMap \cup {blockHash} |->
                               IF k = blockHash THEN 0 ELSE t.leafMap[k]]], TRUE)
            ELSE GenerateProofLoop(t, t.leafMap[blockHash], 0, {}, <<>>)
                    @@ [miss |-> FALSE, m |-> t]

\* c is the Config m.Config points to, t the tree, block what Serialize
\* returns for the data block.  The call of a nil m.HashFunc panics.
GenerateProof(c, t, block) ==
    IF c.Mode # ModeTreeBuild /\ c.Mode # ModeProofGenAndTreeBuild THEN NoProof(t, FALSE)
    ELSE IF block = BadBlock THEN NoProof(t, FALSE)
    ELSE IF c.HashFunc.nil THEN [NoProof(t, FALSE) EXCEPT !.err = FALSE, !.panic = TRUE]
    ELSE IF Fails(c.HashFunc, block) THEN NoProof(t, FALSE)
    ELSE LET blockHash == LookupKey(block)
         IN IF blockHash \notin DOMAIN t.leafMap THEN NoProof(t, TRUE)
            ELSE GenerateProofLoop(t, t.leafMap[blockHash], 0, {}, <<>>)
                    @@ [miss |-> FALSE, m |-> t]

---------------------------------------------------------------------------
\* The inputs

\* The sequences of n values in which the values used are 1..k for some k:
\* every arrangement of n blocks up to the names of the values.
Patterns(n) ==
    {f \in [1..n -> 1..n] : \E k \in 0..n : {f[i] : i \in 1..n} = 1..k}

RECURSIVE Chained(_)
\* Value v as bytes that are the digest of value v - 1 (blocks hashed by the caller).
Chained(v) == IF v <= 1 THEN Str(1) ELSE H(Chained(v - 1))

\* Every arrangement of plain blocks, and every arrangement of distinct
\* blocks of which each but the smallest is the digest of another.
BlockSeqs ==
    UNION {{[i \in 1..n |-> Str(f[i])] : f \in Patterns(n)}
           \cup {[i \in 1..n |-> Chained(f[i])] :
                    f \in {g \in Patterns(n) : \A i, j \in 1..n : g[i] = g[j] => i = j}}
           : n \in 0..MaxBlocks}

\* The Configs of a caller who sets a hash function that returns no error.
Configs ==
    [Mode : ModeProofGen..ModeInvalid, NoDuplicates : BOOLEAN,
     SortLeaves : BOOLEAN, SortPairs : BOOLEAN, HashFunc : {defaultHashFunc}]

RECURSIVE LevelLen(_, _)
\* The length of level i of the tree of n leaves when fixOdd is called on it:
\* n for the leaves, then half the length fixOdd left the level below with.
LevelLen(n, i) ==
    IF i = 0 THEN n
    ELSE (LevelLen(n, i - 1) + (LevelLen(n, i - 1) % 2)) \div 2

\* The levels at which a run of New calls fixOdd on an odd length, each with
\* the value the random source would return there; fixOdd decides whether
\* it is drawn.
DummyLevels(c, n) ==
    IF n >= 2 /\ c.Mode # ModeInvalid
    THEN {i \in 0..(calTreeDepth(n) - 1) : LevelLen(n, i) % 2 = 1}
    ELSE {}

---------------------------------------------------------------------------
\* The state

VARIABLES
    cfg,     \* the Config the caller passes to New; the tree keeps a pointer to it
    blocks,  \* the data blocks the caller passes to New, as their serialized bytes
    trees,   \* trees[r]: what the r-th call of New returned
    pc,      \* pc[r]: "start" before the r-th call of New, "done" after it
    call,    \* the last call of Verify or GenerateProof: its arguments and result
    build,   \* a call of New that is inside treeBuild: the position of the
             \* calling goroutine and of the goroutine that fills leafMap
    pool     \* the handlers of the parallel computation at work on one level

vars == << cfg, blocks, trees, pc, call, build, pool >>

\* No call of New is inside treeBuild.  main is the statement the caller is
\* at, i the level its loop is at, gor the statement the goroutine that
\* fills leafMap is at and stored the number of its stores.
NoBuild == [main |-> "none", i |-> 0, gor |-> "none", stored |-> 0]

\* No handler is at work.  kind names the handler the workers run, N is
\* numRoutines, buf the buffer they read (the data blocks for leafGenHandler),
\* len the bound of their loops (prevLen, bufLen, lenLeaves), out the buffer
\* they write, Proofs the proofs of the tree (Proofs0 before the workers
\* started), at[k] the loop variable of worker k, errs the workers that
\* returned an error, panic an index out of range; writes[s] are the workers
\* that wrote slot s of out, appends[l] those that appended to Proofs[l].
NoPool == [kind |-> "none", N |-> 0, buf |-> <<>>, len |-> 0, out |-> <<>>,
           step |-> 0, Proofs |-> <<>>, Proofs0 |-> <<>>, at |-> <<>>, errs |-> {},
           panic |-> FALSE, writes |-> <<>>, appends |-> <<>>]

NoCall == [op |-> "none", blockNil |-> FALSE, proofNil |-> FALSE, block |-> <<>>,
           Siblings |-> <<>>, Path |-> {}, root |-> <<>>, ok |-> FALSE, err |-> FALSE,
           panic |-> FALSE, leaf |-> 0, tamper |-> "none", bit |-> 0,
           miss |-> FALSE, calls |-> 0, retry |-> FALSE]

Init ==
    /\ cfg \in Configs
    /\ blocks \in BlockSeqs
    /\ trees = << NoTree, NoTree >>
    /\ pc = << "start", "start" >>
    /\ call = NoCall
    /\ build = NoBuild
    /\ pool = NoPool

\* The numbers of stores the goroutine of treeBuild may have made when New
\* returns: all of them unless the build can end early on a failure.
StoredChoices(lo) ==
    IF \/ lo = 0
       \/ cfg.HashFunc.fails # "never"
       \/ \E i \in 1..Len(blocks) : blocks[i] = BadBlock
    THEN 0..Len(blocks)
    ELSE {Len(blocks)}

\* The r-th call New(cfg, blocks), the calls being made one after the other.
\* lo is the least draw of the random source: 0 is a read that fails.  New
\* writes the HashFunc it defaults into the caller's Config.
NewTreeFrom(r, lo) ==
    /\ pc[r] = "start"
    /\ \A q \in 1..(r - 1) : pc[q] = "done"
    /\ \E ds \in [DummyLevels(cfg, Len(blocks)) -> lo..NumDummies], st \in StoredChoices(lo) :
          trees' = [trees EXCEPT ![r] = New(cfg, blocks, [dummy |-> ds, stored |-> st])]
    /\ cfg' = NewConfig(cfg, blocks)
    /\ pc' = [pc EXCEPT ![r] = "done"]
    /\ UNCHANGED << blocks, call >>
    /\ UNCHANGED << build, pool >>

\* New with a random source that does not fail.
NewTree(r) == NewTreeFrom(r, 1)

\* The blocks GenerateProof is called with: the input blocks and one other.
ProbeBlocks == {blocks[i] : i \in 1..Len(blocks)} \cup {Str(MaxBlocks + 1)}

\* trees[1].GenerateProof(b): the first call on the tree, or the call that
\* follows the lookup of the block that is not among the input and was not
\* found (retry).
GenerateProofCall ==
    /\ pc[1] = "done"
    /\ ~trees[1].nil
    /\ \/ call.op = "none"
       \/ /\ call.op = "GenerateProof" /\ call.miss /\ ~call.retry
          /\ call.block = Str(MaxBlocks + 1)
    /\ \E b \in ProbeBlocks :
          LET g == GenerateProof(cfg, trees[1], b)
          IN /\ call' = [NoCall EXCEPT !.op = "GenerateProof", !.block = b,
                                       !.Siblings = g.Siblings, !.Path = g.Path,
                                       !.err = g.err, !.ok = ~g.err /\ ~g.panic,
                                       !.panic = g.panic, !.miss = g.miss,
                                       !.retry = (call.op = "GenerateProof")]
             /\ trees' = [trees EXCEPT ![1] = g.m]
    /\ UNCHANGED << cfg, blocks, pc >>
    /\ UNCHANGED << build, pool >>

\* The call of Verify with the arguments in, recorded with tag op.
VerifyAs(op, in, leaf) ==
    LET v == Verify(in)
    IN call' = [NoCall EXCEPT !.op = op, !.blockNil = in.blockNil, !.proofNil = in.proofNil,
                              !.block = in.block, !.Siblings = in.Siblings,
                              !.Path = in.Path, !.root = in.root,
                              !.ok = v.ok, !.err = v.err, !.leaf = leaf,
                              !.panic = v.panic, !.calls = v.calls]

\* trees[1].Verify(b, trees[1].Proofs[i]) for the block b that became leaf i.
VerifyStreamed ==
    /\ pc[1] = "done"
    /\ ~trees[1].nil
    /\ call.op = "none"
    /\ \E i \in 1..Len(trees[1].Proofs) :
          VerifyAs("VerifyStreamed",
                   [blockNil |-> FALSE, proofNil |-> FALSE, block |-> trees[1].Leaves[i],
                    Siblings |-> trees[1].Proofs[i].Siblings,
                    Path |-> trees[1].Proofs[i].Path, root |-> trees[1].Root,
                    hashFunc |-> cfg.HashFunc], i - 1)
    /\ UNCHANGED << cfg, blocks, trees, pc >>
    /\ UNCHANGED << build, pool >>

\* trees[1].Verify(b, p) for the proof p that GenerateProof(b) has just returned.
VerifyGenerated ==
    /\ pc[1] = "done"
    /\ ~trees[1].nil
    /\ call.op = "GenerateProof"
    /\ call.ok
    /\ VerifyAs("VerifyGenerated",
                [blockNil |-> FALSE, proofNil |-> FALSE, block |-> call.block,
                 Siblings |-> call.Siblings, Path |-> call.Path,
                 root |-> trees[1].Root, hashFunc |-> cfg.HashFunc], 0)
    /\ UNCHANGED << cfg, blocks, trees, pc >>
    /\ UNCHANGED << build, pool >>

Next == NewTree(1) \/ GenerateProofCall \/ VerifyStreamed \/ VerifyGenerated

Spec == Init /\ [][Next]_vars

---------------------------------------------------------------------------
\* Two calls of New with the same Config and the same blocks

NextRuns == \E r \in 1..2 : NewTree(r)

SpecRuns == Init /\ [][NextRuns]_vars

---------------------------------------------------------------------------
\* The package-level Verify on arguments of the caller's choosing

VBlocks == {Str(1), Str(2), H(Str(1))}

VSibs == {<<>>, Str(2), H(Str(1)), H(Str(2))}

SibSeqs == UNION {[1..n -> VSibs] : n \in 0..MaxSibs}

\* The hash functions handed to Verify: nil, the default one, and those that
\* return an error on some inputs.
VHashFuncs == {NilFunc} \cup {[nil |-> FALSE, fails |-> k] :
                                k \in {"never", "always", "digest", "third"}}

\* path ^ (1 << k)
FlipBit(path, k) == IF k \in path THEN path \ {k} ELSE path \cup {k}

InitVerify ==
    /\ cfg = [Mode |-> ModeProofGen, NoDuplicates |-> FALSE,
              SortLeaves |-> FALSE, SortPairs |-> FALSE, HashFunc |-> defaultHashFunc]
    /\ blocks = <<>>
    /\ trees = << NoTree, NoTree >>
    /\ pc = << "start", "start" >>
    /\ call = NoCall
    /\ build = NoBuild
    /\ pool = NoPool

\* Verify(block, proof, root, hashFunc) on a block and a proof, with a hash
\* function that returns no error; the roots tried are the digest the fold
\* reaches from the hashed block and the one it reaches from the raw block.
VerifyAny ==
    /\ call.op = "none"
    /\ \E b \in VBlocks, sibs \in SibSeqs, path \in SUBSET (0..MaxSibs) :
          \E root \in {VerifyFold(H(b), path, sibs), VerifyFold(b, path, sibs)} :
             VerifyAs("Verify", [blockNil |-> FALSE, proofNil |-> FALSE, block |-> b,
                                 Siblings |-> sibs, Path |-> path, root |-> root,
                                 hashFunc |-> cfg.HashFunc], 0)
    /\ UNCHANGED << cfg, blocks, trees, pc >>
    /\ UNCHANGED << build, pool >>

\* After a Verify that returned true, the same call with one argument changed.
VerifyTampered ==
    /\ call.op = "Verify"
    /\ call.tamper = "none"
    /\ call.ok
    /\ LET in == [blockNil |-> FALSE, proofNil |-> FALSE, block |-> call.block,
                  Siblings |-> call.Siblings, Path |-> call.Path, root |-> call.root,
                  hashFunc |-> cfg.HashFunc]
           redo(t, k, new) ==
               LET v == Verify(new)
               IN call' = [call EXCEPT !.block = new.block, !.Siblings = new.Siblings,
                                       !.Path = new.Path, !.root = new.root,
                                       !.ok = v.ok, !.err = v.err,
                                       !.tamper = t, !.bit = k]
       IN \/ \E b \in VBlocks \ {in.block} : redo("block", 0, [in EXCEPT !.block = b])
          \/ \E k \in 1..Len(in.Siblings) : \E n \in VSibs \ {in.Siblings[k]} :
                redo("sibling", k - 1, [in EXCEPT !.Siblings[k] = n])
          \/ \E k \in 0..(PathBits - 1) :
                redo("path", k, [in EXCEPT !.Path = FlipBit(in.Path, k)])
          \/ \E r \in {in.block, H(in.root)} \ {in.root} :
                redo("root", 0, [in EXCEPT !.root = r])
    /\ UNCHANGED << cfg, blocks, trees, pc >>
    /\ UNCHANGED << build, pool >>

\* Verify(block, proof, root, hashFunc) where the block, the proof or both
\* may be nil, the block's Serialize may return an error, and hashFunc may
\* be nil or return an error; the root is the one the fold reaches.
VerifyInvalid ==
    /\ call.op = "none"
    /\ \E b \in VBlocks \cup {BadBlock}, sibs \in SibSeqs, path \in SUBSET (0..(MaxSibs - 1)),
          bn, pn \in BOOLEAN, hf \in VHashFuncs :
          VerifyAs("Verify",
                   [blockNil |-> bn, proofNil |-> pn,
                    block |-> IF bn THEN <<>> ELSE b,
                    Siblings |-> IF pn THEN <<>> ELSE sibs,
                    Path |-> IF pn THEN {} ELSE path,
                    root |-> VerifyFold(H(b), path, sibs), hashFunc |-> hf], 0)
    /\ UNCHANGED << cfg, blocks, trees, pc >>
    /\ UNCHANGED << build, pool >>

NextVerify == VerifyAny \/ VerifyTampered

SpecVerify == InitVerify /\ [][NextVerify]_vars

NextInvalid == VerifyInvalid

SpecInvalid == InitVerify /\ [][NextInvalid]_vars

---------------------------------------------------------------------------
\* New, GenerateProof and Verify when Serialize, the hash function or the
\* random source may fail

\* Distinct plain blocks in every order, none or one of them replaced by the
\* block whose Serialize fails.
FaultBlockSeqs ==
    UNION {LET plain == {[i \in 1..n |-> Str(f[i])] :
                           f \in {g \in [1..n -> 1..n] : \A i, j \in 1..n : g[i] = g[j] => i = j}}
           IN plain \cup {[b EXCEPT ![k] = BadBlock] : b \in plain, k \in 1..n}
           : n \in 0..MaxBlocks}

\* The Configs of a caller who may leave HashFunc nil or set a function that
\* returns errors.
FaultConfigs ==
    [Mode : ModeProofGen..ModeInvalid, NoDuplicates : BOOLEAN,
     SortLeaves : BOOLEAN, SortPairs : BOOLEAN, HashFunc : VHashFuncs]

InitFaults ==
    /\ cfg \in FaultConfigs
    /\ blocks \in FaultBlockSeqs
    /\ trees = << NoTree, NoTree >>
    /\ pc = << "start", "start" >>
    /\ call = NoCall
    /\ build = NoBuild
    /\ pool = NoPool

NextFaults == NewTreeFrom(1, 0) \/ GenerateProofCall \/ VerifyStreamed

SpecFaults == InitFaults /\ [][NextFaults]_vars

---------------------------------------------------------------------------
\* A caller who writes to the Config after New has returned the tree

\* The fields of a Config.
ConfigFields == {"Mode", "NoDuplicates", "SortLeaves", "SortPairs", "HashFunc"}

InitConfig ==
    /\ cfg \in {c \in FaultConfigs : c.HashFunc.fails \in {"never", "always"}}
    /\ blocks \in {b \in BlockSeqs : Len(b) < MaxBlocks}
    /\ trees = << NoTree, NoTree >>
    /\ pc = << "start", "start" >>
    /\ call = NoCall
    /\ build = NoBuild
    /\ pool = NoPool

\* The caller assigns one field of the Config it passed to New; the tree
\* holds a pointer to that Config, not a copy.
CallerSetsConfig ==
    /\ pc[1] = "done"
    /\ ~trees[1].nil
    /\ call.op = "none"
    /\ cfg = trees[1].Config
    /\ \E c \in FaultConfigs :
          /\ c.HashFunc.fails \in {"never", "always"}
          /\ Cardinality({f \in ConfigFields : c[f] # cfg[f]}) = 1
          /\ cfg' = c
    /\ UNCHANGED << blocks, trees, pc, call >>
    /\ UNCHANGED << build, pool >>

NextConfig == NewTree(1) \/ CallerSetsConfig \/ GenerateProofCall \/ VerifyStreamed

SpecConfig == InitConfig /\ [][NextConfig]_vars

---------------------------------------------------------------------------
\* New on block counts up to MaxDepthBlocks, the blocks being distinct

InitDepth ==
    /\ cfg \in Configs
    /\ blocks \in {[i \in 1..n |-> Str(i)] : n \in 0..MaxDepthBlocks}
    /\ trees = << NoTree, NoTree >>
    /\ pc = << "start", "start" >>
    /\ call = NoCall
    /\ build = NoBuild
    /\ pool = NoPool

NextDepth == NewTree(1)

SpecDepth == InitDepth /\ [][NextDepth]_vars

---------------------------------------------------------------------------
\* New and GenerateProof on up to MaxProofBlocks blocks of which each but the
\* first is the digest of the one before it, so that lookups find their key

InitProofs ==
    /\ cfg \in Configs
    /\ blocks \in {[i \in 1..n |-> Chained(i)] : n \in 0..MaxProofBlocks}
    /\ trees = << NoTree, NoTree >>
    /\ pc = << "start", "start" >>
    /\ call = NoCall
    /\ build = NoBuild
    /\ pool = NoPool

NextProofs == NewTree(1) \/ GenerateProofCall

SpecProofs == InitProofs /\ [][NextProofs]_vars

---------------------------------------------------------------------------
\* treeBuild statement by statement, with the goroutine it starts to fill
\* leafMap running beside it

\* The draws fixOdd can make of the random source on a level of length len:
\* 0 is a read that fails, and 1 stands for no read.
Draws(c, len) == IF c.NoDuplicates /\ len % 2 = 1 THEN 0..NumDummies ELSE {1}

\* What getDummyHash returns on the draw d.
Drawn(d) == IF d = 0 THEN <<>> ELSE getDummyHash(d)

\* m.leafMap.Store(key, val)
Store(leafMap, key, val) ==
    [k \in DOMAIN leafMap \cup {key} |-> IF k = key THEN val ELSE leafMap[k]]

InitBuild ==
    /\ cfg \in {c \in FaultConfigs :
                  /\ c.Mode \in {ModeTreeBuild, ModeProofGenAndTreeBuild}
                  /\ ~c.HashFunc.nil
                  /\ c.HashFunc.fails \in {"never", "always", "digest"}}
    /\ blocks \in {b \in BlockSeqs : Len(b) >= 2 /\ Len(b) <= MaxBuildBlocks}
    /\ trees = << NoTree, NoTree >>
    /\ pc = << "start", "start" >>
    /\ call = NoCall
    /\ build = NoBuild
    /\ pool = NoPool

\* New up to its call of treeBuild, and treeBuild up to the allocation of
\* m.tree: the goroutine is started.
BuildBegin ==
    /\ pc[1] = "start"
    /\ Len(blocks) > 1
    /\ cfg.Mode \in {ModeTreeBuild, ModeProofGenAndTreeBuild}
    /\ ~leafGen(NewConfig(cfg, blocks), blocks).err
    /\ cfg' = NewConfig(cfg, blocks)
    /\ trees' = [trees EXCEPT ![1] =
                   [NoTree EXCEPT !.nil = FALSE,
                                  !.Depth = calTreeDepth(Len(blocks)),
                                  !.Leaves = leafGen(NewConfig(cfg, blocks), blocks).leaves,
                                  !.Config = NewConfig(cfg, blocks),
                                  !.tree = [i \in 1..calTreeDepth(Len(blocks)) |-> <<>>]]]
    /\ pc' = [pc EXCEPT ![1] = "building"]
    /\ build' = [main |-> "fixOdd", i |-> 0, gor |-> "storing", stored |-> 0]
    /\ UNCHANGED << blocks, call, pool >>

\* One turn of the loop of the goroutine: the store of leaf number stored.
\* After the last one the goroutine is at its send on finishMap.
PopulatorStore ==
    /\ build.gor = "storing"
    /\ trees' = [trees EXCEPT ![1].leafMap =
                   Store(@, At(trees[1].Leaves, build.stored), build.stored)]
    /\ build' = [build EXCEPT !.stored = @ + 1,
                              !.gor = IF build.stored + 1 = Len(trees[1].Leaves)
                                      THEN "sending" ELSE "storing"]
    /\ UNCHANGED << cfg, blocks, pc, call, pool >>

\* treeBuild returns err with m as it stands, and New returns m and err
\* (after the loop that streams the proofs, when there is no error and the
\* Mode asks for them).
BuildReturns(m, err) ==
    /\ trees' = [trees EXCEPT ![1] =
                   NewTreeBuild(m, [Root |-> m.Root, tree |-> m.tree,
                                    leafMap |-> m.leafMap, err |-> err],
                                cfg.Mode = ModeProofGenAndTreeBuild)]
    /\ pc' = [pc EXCEPT ![1] = "done"]

\* The copy of the leaves into m.tree[0] and its fixOdd.
MainFixOdd ==
    /\ build.main = "fixOdd"
    /\ \E d \in Draws(cfg, Len(trees[1].Leaves)) :
          LET m  == trees[1]
              fx == fixOdd(cfg, m.Leaves, Len(m.Leaves), Drawn(d))
          IN IF fx.err
             THEN /\ BuildReturns(m, TRUE)
                  /\ build' = [build EXCEPT !.main = "returned"]
             ELSE /\ trees' = [trees EXCEPT ![1].tree[1] = fx.buf]
                  /\ build' = [build EXCEPT !.main = IF m.Depth > 1 THEN "level" ELSE "root"]
                  /\ UNCHANGED pc
    /\ UNCHANGED << cfg, blocks, call, pool >>

\* One turn of the loop over the levels: level i+1 and its fixOdd.
MainLevel ==
    /\ build.main = "level"
    /\ LET m  == trees[1]
           lv == treeBuildLevel(cfg, At(m.tree, build.i))
       IN IF lv.err
          THEN /\ BuildReturns([m EXCEPT !.tree[build.i + 2] = lv.next], TRUE)
               /\ build' = [build EXCEPT !.main = "returned"]
          ELSE \E d \in Draws(cfg, Len(lv.next)) :
                  LET fx == fixOdd(cfg, lv.next, Len(lv.next), Drawn(d))
                  IN IF fx.err
                     THEN /\ BuildReturns([m EXCEPT !.tree[build.i + 2] = fx.buf], TRUE)
                          /\ build' = [build EXCEPT !.main = "returned"]
                     ELSE /\ trees' = [trees EXCEPT ![1].tree[build.i + 2] = fx.buf]
                          /\ build' = [build EXCEPT
                                         !.i = @ + 1,
                                         !.main = IF build.i + 1 >= m.Depth - 1
                                                  THEN "root" ELSE "level"]
                          /\ UNCHANGED pc
    /\ UNCHANGED << cfg, blocks, call, pool >>

\* The hash of the two nodes of the last level into m.Root.
MainRoot ==
    /\ build.main = "root"
    /\ LET m    == trees[1]
           last == At(m.tree, m.Depth - 1)
           r    == HashFunc(cfg.HashFunc, At(last, 0) \o At(last, 1))
       IN IF r.err
          THEN /\ BuildReturns(m, TRUE)
               /\ build' = [build EXCEPT !.main = "returned"]
          ELSE /\ trees' = [trees EXCEPT ![1].Root = r.val]
               /\ build' = [build EXCEPT !.main = "join"]
               /\ UNCHANGED pc
    /\ UNCHANGED << cfg, blocks, call, pool >>

\* The receive on finishMap (an unbuffered channel) meets the send of the
\* goroutine: treeBuild returns nil and the goroutine ends.
Join ==
    /\ build.main = "join"
    /\ build.gor = "sending"
    /\ BuildReturns(trees[1], FALSE)
    /\ build' = [build EXCEPT !.main = "returned", !.gor = "exited"]
    /\ UNCHANGED << cfg, blocks, call, pool >>

NextBuild ==
    \/ BuildBegin
    \/ PopulatorStore
    \/ MainFixOdd
    \/ MainLevel
    \/ MainRoot
    \/ Join
    \/ GenerateProofCall

SpecBuild == InitBuild /\ [][NextBuild]_vars

\* The Go scheduler runs every goroutine that can take a step; the calls of
\* GenerateProof are the caller's to make or not.
SpecBuildFair ==
    /\ SpecBuild
    /\ WF_vars(PopulatorStore)
    /\ WF_vars(BuildBegin \/ MainFixOdd \/ MainLevel \/ MainRoot)
    /\ WF_vars(Join)

---------------------------------------------------------------------------
\* The handlers of the parallel computation: N workers on one level, worker
\* k = 0..N-1 being given the start 2k (k for leafGenHandler) and numRoutines N

\* i += numRoutines, taken for a stride over pairs.
PairStride_Single(numRoutines) == numRoutines

\* i += numRoutines << 1
PairStride(numRoutines) == 2 * numRoutines

\* One turn of the loop of treeBuildHandler in worker k, i being its loop
\* variable; p.buf is mt.tree[depth] and p.out is mt.tree[depth+1].
treeBuildHandler(c, p, k, i) ==
    IF i + 1 >= Len(p.buf) THEN [p EXCEPT !.panic = TRUE]
    ELSE IF Fails(c.HashFunc, At(p.buf, i) \o At(p.buf, i + 1))
    THEN [p EXCEPT !.errs = @ \cup {k}]
    ELSE IF i \div 2 >= Len(p.out) THEN [p EXCEPT !.panic = TRUE]
    ELSE [p EXCEPT !.out[(i \div 2) + 1] = H(At(p.buf, i) \o At(p.buf, i + 1)),
                   !.writes[(i \div 2) + 1] = @ \cup {k},
                   !.at[k + 1] = i + PairStride(p.N)]

\* One turn of the loop of proofGenHandler; p.buf is buf1 and p.out is buf2.
proofGenHandler(c, p, k, i) ==
    IF i + 1 >= Len(p.buf) THEN [p EXCEPT !.panic = TRUE]
    ELSE IF Fails(c.HashFunc, At(p.buf, i) \o At(p.buf, i + 1))
    THEN [p EXCEPT !.errs = @ \cup {k}]
    ELSE IF i \div 2 >= Len(p.out) THEN [p EXCEPT !.panic = TRUE]
    ELSE [p EXCEPT !.out[(i \div 2) + 1] = H(At(p.buf, i) \o At(p.buf, i + 1)),
                   !.writes[(i \div 2) + 1] = @ \cup {k},
                   !.at[k + 1] = i + PairStride(p.N)]

\* One turn of the loop of updateProofHandler: updatePairProof on pair i,
\* which appends to the proofs of the leaves of its two batches.
updateProofHandler(c, p, k, i) ==
    LET batch == Pow2(p.step)
        n     == Len(p.Proofs)
    IN IF \/ i * batch < n /\ i + 1 >= Len(p.buf)
          \/ i * batch + batch < n /\ i >= Len(p.buf)
       THEN [p EXCEPT !.panic = TRUE]
       ELSE [p EXCEPT !.Proofs = updatePairProof(p.Proofs, p.buf, i, batch, p.step),
                      !.appends = [l \in 1..n |->
                                     IF l - 1 >= i * batch /\ l - 1 < i * batch + 2 * batch
                                     THEN p.appends[l] \cup {k} ELSE p.appends[l]],
                      !.at[k + 1] = i + PairStride(p.N)]

\* One turn of the loop of leafGenHandler; p.buf holds the blocks and p.out
\* the leaves.
leafGenHandler(c, p, k, i) ==
    IF i >= Len(p.buf) THEN [p EXCEPT !.panic = TRUE]
    ELSE IF At(p.buf, i) = BadBlock \/ Fails(c.HashFunc, At(p.buf, i))
    THEN [p EXCEPT !.errs = @ \cup {k}]
    ELSE IF i >= Len(p.out) THEN [p EXCEPT !.panic = TRUE]
    ELSE [p EXCEPT !.out[i + 1] = H(At(p.buf, i)),
                   !.writes[i + 1] = @ \cup {k},
                   !.at[k + 1] = i + p.N]

\* The levels handed to the workers: an even number of nodes, equal ones
\* and pairs out of order among them.
PoolLevels ==
    UNION {[1..(2 * h) -> {Str(1), Str(2)}] : h \in 1..(MaxPoolLen \div 2)}

RECURSIVE ProofsBefore(_, _, _)
\* The proofs of n leaves as proofGen has them before step s, levels being
\* its buffers step by step.
ProofsBefore(levels, n, s) ==
    IF s = 0 THEN initProofs(n)
    ELSE updateProofs(ProofsBefore(levels, n, s - 1), levels[s], Len(levels[s]), s - 1)

\* The workers before their first turn.
Workers(kind, N, buf, len, outLen, proofs, step) ==
    [kind |-> kind, N |-> N, buf |-> buf, len |-> len,
     out |-> [j \in 1..outLen |-> <<>>], step |-> step,
     Proofs |-> proofs, Proofs0 |-> proofs,
     at |-> [k \in 1..N |-> IF kind = "leafGen" THEN k - 1 ELSE 2 * (k - 1)],
     errs |-> {}, panic |-> FALSE,
     writes |-> [j \in 1..outLen |-> {}],
     appends |-> [l \in 1..Len(proofs) |-> {}]]

InitPool ==
    /\ cfg \in {c \in Configs : c.Mode = ModeTreeBuild /\ ~c.NoDuplicates}
    /\ blocks = <<>>
    /\ trees = << NoTree, NoTree >>
    /\ pc = << "start", "start" >>
    /\ call = NoCall
    /\ build = NoBuild
    /\ pool = NoPool

\* N workers are started on a level of the tree, on a step of the proofs of
\* n leaves, or on the data blocks.
PoolStart ==
    /\ pool.kind = "none"
    /\ \E N \in 1..MaxRoutines :
          \/ \E kind \in {"treeBuild", "proofGen"}, lvl \in PoolLevels :
                pool' = Workers(kind, N, lvl, Len(lvl), Len(lvl) \div 2, <<>>, 0)
          \/ \E n \in 2..MaxPoolLen : \E s \in 0..(calTreeDepth(n) - 1) :
                LET levels == proofGen(cfg, [dummy |-> <<>>, stored |-> 0], calTreeDepth(n),
                                       [i \in 1..n |-> Str(i)]).levels
                IN pool' = Workers("updateProof", N, levels[s + 1], Len(levels[s + 1]), 0,
                                   ProofsBefore(levels, n, s), s)
          \/ \E bl \in {b \in PoolLevels : Len(b) <= MaxBlocks} :
                pool' = Workers("leafGen", N, bl, Len(bl), Len(bl), <<>>, 0)
    /\ UNCHANGED << cfg, blocks, trees, pc, call, build >>

\* One turn of the loop of one worker that has not returned.
HandlerStep ==
    /\ pool.kind # "none"
    /\ ~pool.panic
    /\ \E k \in 0..(pool.N - 1) :
          /\ k \notin pool.errs
          /\ At(pool.at, k) < pool.len
          /\ pool' = CASE pool.kind = "treeBuild"   -> treeBuildHandler(cfg, pool, k, At(pool.at, k))
                       [] pool.kind = "proofGen"    -> proofGenHandler(cfg, pool, k, At(pool.at, k))
                       [] pool.kind = "updateProof" -> updateProofHandler(cfg, pool, k, At(pool.at, k))
                       [] pool.kind = "leafGen"     -> leafGenHandler(cfg, pool, k, At(pool.at, k))
    /\ UNCHANGED << cfg, blocks, trees, pc, call, build >>

NextPool == PoolStart \/ HandlerStep

SpecPool == InitPool /\ [][NextPool]_vars

---------------------------------------------------------------------------
\* Properties

\* The tree of the first call of New, once it has returned one.
Built == pc[1] = "done" /\ ~trees[1].nil

\* C1. Round trip: Verify of an input block with the proof the tree produced
\* for it (its entry of Proofs, or what GenerateProof returned for it) and
\* the tree's Root returns true.
C1_RoundTrip ==
    call.op \in {"VerifyStreamed", "VerifyGenerated"} => call.ok

\* C2. Streaming/indexed equivalence: in ModeProofGenAndTreeBuild,
\* GenerateProof of the input block at leaf position i succeeds and returns
\* the Path and the Siblings of Proofs[i].
C2_StreamingEqualsIndexed ==
    (/\ Built
     /\ cfg.Mode = ModeProofGenAndTreeBuild
     /\ call.op = "GenerateProof"
     /\ \E i \in 1..Len(blocks) : blocks[i] = call.block)
    => /\ ~call.err
       /\ \A i \in 1..Len(trees[1].Leaves) :
             trees[1].Leaves[i] = call.block
             => /\ call.Path = trees[1].Proofs[i].Path
                /\ call.Siblings = trees[1].Proofs[i].Siblings

\* Both calls of New have returned.
BothRuns == pc[1] = "done" /\ pc[2] = "done"

SameResult ==
    /\ trees[1].nil = trees[2].nil
    /\ trees[1].Root = trees[2].Root
    /\ trees[1].Proofs = trees[2].Proofs

\* C3 as claimed. Determinism: two runs of New on the same Config (whatever
\* NoDuplicates is) and the same blocks (whatever their number) give equal
\* Roots and equal Proofs.
C3_Determinism == BothRuns => SameResult

\* C3 as amended. Two runs of New on the same Config and blocks give equal
\* Roots and Proofs when NoDuplicates is false, and when it is true and the
\* number of blocks is a power of two (no level has odd length).
C3_DeterminismWithoutDummies ==
    (BothRuns /\ (~cfg.NoDuplicates \/ Pow2(Log2Floor(Len(blocks))) = Len(blocks)))
    => SameResult

\* Two runs on three blocks with the duplication policy, proofs generated.
C3_Witness ==
    /\ BothRuns
    /\ ~cfg.NoDuplicates
    /\ Len(blocks) = 3
    /\ Len(trees[1].Proofs) = 3
    /\ Len(trees[2].Root) = 1

\* The last call was the package-level Verify on a block and a proof.
Verified == call.op = "Verify" /\ ~call.blockNil /\ ~call.proofNil

\* C4 as claimed. Tamper sensitivity: after a Verify that returned true,
\* the call with the block's bytes, one sibling, any one of the 32 bits of
\* Path, or the root changed returns false.
C4_TamperSensitivity == (Verified /\ call.tamper # "none") => ~call.ok

\* The accumulator of the call before sibling k (counted from 0) is combined.
AccBefore(k) == VerifyFold(VerifyStart(call.block), call.Path, SubSeq(call.Siblings, 1, k))

\* Bit call.bit of Path is one that Verify reads, and the two orders of
\* combining at that step give different bytes.
BitMatters ==
    /\ call.bit < Len(call.Siblings)
    /\ AccBefore(call.bit) \o call.Siblings[call.bit + 1]
         # call.Siblings[call.bit + 1] \o AccBefore(call.bit)

\* C4 as amended. After a Verify that returned true, the call returns false
\* with the block's bytes, one sibling or the root changed, and with bit k
\* of Path flipped when k is below the number of siblings and, at step k,
\* accumulator ++ sibling differs from sibling ++ accumulator.
C4_TamperSensitivityOfReadBits ==
    (Verified /\ call.tamper # "none" /\ (call.tamper = "path" => BitMatters))
    => ~call.ok

\* A call that returned true before bit 1 of the path of its two-sibling
\* proof was flipped.
C4_Witness ==
    /\ Verified
    /\ call.tamper = "path"
    /\ call.bit = 1
    /\ Len(call.Siblings) = 2
    /\ BitMatters
    /\ ~call.ok

\* C9. Verify starts its accumulator as the raw serialized bytes of the
\* block: it returns true exactly when folding the siblings from those
\* bytes, with no hash applied first, reaches root.
C9_AccumulatorStartsRaw ==
    Verified => (call.ok <=> VerifyFold(call.block, call.Path, call.Siblings) = call.root)

\* C10. Verify's fold: sibling k (from 0) is combined by bit k of Path, as
\* hash(acc ++ sibling) when the bit is 1 and hash(sibling ++ acc) when it is
\* 0, and the result is true exactly when the last accumulator is root.
C10_Fold ==
    Verified =>
       LET S == call.Siblings
           acc[k \in 0..Len(S)] ==
               IF k = 0 THEN VerifyStart(call.block)
               ELSE IF (k - 1) \in call.Path THEN H(acc[k - 1] \o S[k])
               ELSE H(S[k] \o acc[k - 1])
       IN call.ok <=> (acc[Len(S)] = call.root)

\* A call that returned true on two siblings, the first combined on the
\* left of the accumulator and the second on its right.
C10_Witness ==
    /\ Verified
    /\ call.tamper = "none"
    /\ Len(call.Siblings) = 2
    /\ call.Siblings[1] # call.Siblings[2]
    /\ call.Path = {1}
    /\ call.ok

\* The levels New computed, each as it stands after fixOdd: the stored tree
\* in the modes that build it, the successive buffers of proofGen otherwise.
LevelsOf(t) == IF Len(t.tree) > 0 THEN t.tree ELSE t.levels

\* C5. Odd-leaf duplication: with NoDuplicates = false, the last node of a
\* level of odd length is the last node of the parent level, unchanged, in
\* the levels of treeBuild and in the level buffers of proofGen.
C5_OddNodePropagates ==
    (Built /\ ~cfg.NoDuplicates) =>
       LET L == LevelsOf(trees[1])
           n == Len(trees[1].Leaves)
       IN \A i \in 0..(Len(L) - 2) :
             LevelLen(n, i) % 2 = 1
             => At(At(L, i + 1), LevelLen(n, i + 1) - 1) = At(At(L, i), LevelLen(n, i) - 1)

\* C6. Sorting invariance: with SortPairs = true, at every level, the last
\* one (whose pair gives Root) included, the parent computed for the pair
\* (x, y) is the parent computed for the pair (y, x).
C6_SortingInvariance ==
    (Built /\ cfg.SortPairs) =>
       LET t == trees[1]
           L == LevelsOf(t)
       IN \A i \in 1..Len(L) : \A k \in 1..(Len(L[i]) \div 2) :
             LET x == L[i][2 * k - 1]
                 y == L[i][2 * k]
             IN IF i = Len(L) THEN t.Root = RootHash(y, x)
                ELSE IF Len(t.tree) > 0 THEN L[i + 1][k] = TreeParent(cfg, y, x)
                ELSE L[i + 1][k] = H(y \o x)

\* C7. Two-leaf boundary: the tree of two blocks has Depth 1, each proof has
\* the other leaf as its one sibling, and Root is hash(leaf0 ++ leaf1)
\* without SortPairs and hash(min ++ max) with it.
C7_TwoLeaves ==
    (Built /\ Len(blocks) = 2) =>
       LET t  == trees[1]
           l0 == t.Leaves[1]
           l1 == t.Leaves[2]
       IN /\ t.Depth = 1
          /\ Len(t.Proofs) > 0 => /\ t.Proofs[1].Siblings = << l1 >>
                                  /\ t.Proofs[2].Siblings = << l0 >>
          /\ t.Root = IF cfg.SortPairs /\ Compare(l1, l0) < 0 THEN H(l1 \o l0)
                       ELSE H(l0 \o l1)

\* Four distinct blocks a, b, c, d, no sorting, the duplication policy.
FourLeafScenario ==
    /\ Built
    /\ Len(blocks) = 4
    /\ \A i, j \in 1..4 : blocks[i] = blocks[j] => i = j
    /\ ~cfg.SortLeaves /\ ~cfg.SortPairs /\ ~cfg.NoDuplicates

\* The levels and the Root of the four-leaf scenario, and the proof of leaf a
\* with the path p.
FourLeafResult(p) ==
    LET t  == trees[1]
        L  == LevelsOf(t)
        ab == H(blocks[1] \o blocks[2])
        cd == H(blocks[3] \o blocks[4])
    IN /\ L[1] = blocks
       /\ L[2] = << ab, cd >>
       /\ t.Root = H(ab \o cd)
       /\ Len(t.Proofs) > 0 => /\ t.Proofs[1].Siblings = << blocks[2], cd >>
                               /\ t.Proofs[1].Path = p

\* C8 as claimed. For blocks [a,b,c,d]: leaf layer [a,b,c,d], level 1
\* [H(a++b), H(c++d)], Root their hash, and the proof of a has the siblings
\* [b, H(c++d)] and Path 0.
C8_FourLeaves == FourLeafScenario => FourLeafResult({})

\* C8 as amended. The same, the proof of a in Proofs having Path 3: bits 0
\* and 1 are set, a and H(a++b) being on the left at both levels.
C8_FourLeavesPathThree == FourLeafScenario => FourLeafResult({0, 1})

\* The scenario in a mode that generates the proofs.
C8_Witness ==
    /\ FourLeafScenario
    /\ blocks = << Str(1), Str(2), Str(3), Str(4) >>
    /\ Len(trees[1].Proofs) = 4
    /\ trees[1].Proofs[1].Path = {0, 1}

\* C11. On-demand proof lookup: in ModeTreeBuild and ModeProofGenAndTreeBuild
\* the key GenerateProof looks an input block up under is one the leaf index
\* holds, and the call returns a proof and no error.
C11_LookupUnderLeafKey ==
    (/\ Built
     /\ cfg.Mode \in {ModeTreeBuild, ModeProofGenAndTreeBuild}
     /\ call.op = "GenerateProof"
     /\ \E i \in 1..Len(blocks) : blocks[i] = call.block)
    => /\ LookupKey(call.block) \in DOMAIN trees[1].leafMap
       /\ ~call.err
       /\ ~call.panic

\* The least d with 2^d >= n.
CeilLog2(n) == CHOOSE d \in 0..n : Pow2(d) >= n /\ \A e \in 0..(d - 1) : Pow2(e) < n

\* C12. Depth formula: for every accepted count n >= 2 of blocks, Depth is
\* ceil(log2(n)), that is log2(n) when n is a power of two and
\* floor(log2(n)) + 1 otherwise, and Depth >= 1.
C12_DepthFormula ==
    (pc[1] = "done" /\ ~trees[1].nil) =>
       LET n == Len(blocks)
           D == trees[1].Depth
       IN /\ n >= 2
          /\ D = CeilLog2(n)
          /\ (\E k \in 0..n : Pow2(k) = n) => Pow2(D) = n
          /\ (\A k \in 0..n : Pow2(k) # n) => (Pow2(D - 1) < n /\ n < Pow2(D))
          /\ D >= 1

\* A tree of a count that is no power of two, with four levels below Root.
C12_Witness ==
    /\ pc[1] = "done"
    /\ ~trees[1].nil
    /\ Len(blocks) = 9
    /\ trees[1].Depth = 4
    /\ Len(trees[1].Root) = 1

\* C13. Configuration errors: New called with fewer than two blocks, or with
\* a Mode that is none of the three defined ones, returns a nil tree and an
\* error, and no leaf, level, proof or index entry of a tree with them.
C13_ConfigurationErrors ==
    (/\ pc[1] = "done"
     /\ \/ Len(blocks) < 2
        \/ cfg.Mode \notin {ModeProofGen, ModeTreeBuild, ModeProofGenAndTreeBuild})
    => /\ trees[1].nil
       /\ trees[1].err
       /\ trees[1].Leaves = <<>> /\ trees[1].tree = <<>>
       /\ trees[1].Proofs = <<>> /\ DOMAIN trees[1].leafMap = {}

\* C14. No partial tree on build failure: when New, called with two blocks
\* or more and a defined Mode, returns an error (a Serialize, the hash
\* function or the padding source failed), the tree it returns is nil.
C14_NoPartialTree ==
    (/\ pc[1] = "done"
     /\ Len(blocks) >= 2
     /\ cfg.Mode \in {ModeProofGen, ModeTreeBuild, ModeProofGenAndTreeBuild}
     /\ trees[1].err)
    => trees[1].nil

\* C15. Verify with a nil data block or a nil proof returns (false, error),
\* does not panic, and calls neither Serialize nor the hash function.
C15_NilArguments ==
    (call.op = "Verify" /\ (call.blockNil \/ call.proofNil))
    => /\ ~call.ok
       /\ call.err
       /\ ~call.panic
       /\ call.calls = 0

\* A call with a nil block and a proof, under a hash function that fails on
\* every input.
C15_Witness ==
    /\ call.op = "Verify"
    /\ call.blockNil
    /\ ~call.proofNil
    /\ Len(call.Siblings) = MaxSibs
    /\ call.err

\* C16. NotFound is recoverable: a GenerateProof call whose key the leaf
\* index does not hold returns a nil proof and an error and leaves the tree
\* (Root, Leaves, levels, Proofs, leaf index) as it was, and the call that
\* follows it returns what GenerateProof returns on that tree.
C16_NotFoundRecoverable ==
    [][/\ (call'.op = "GenerateProof" /\ call'.miss)
          => /\ call'.err /\ ~call'.ok /\ ~call'.panic
             /\ call'.Siblings = <<>> /\ call'.Path = {}
             /\ trees' = trees
       /\ (call.op = "GenerateProof" /\ call.miss /\ call'.retry)
          => LET g == GenerateProof(cfg, trees[1], call'.block)
             IN /\ call'.err = g.err /\ call'.miss = g.miss /\ call'.panic = g.panic
                /\ call'.Siblings = g.Siblings /\ call'.Path = g.Path
      ]_vars

\* A call that found its block after a call that did not find another.
C16_Witness ==
    /\ call.op = "GenerateProof"
    /\ call.retry
    /\ ~call.err
    /\ ~call.miss
    /\ Len(call.Siblings) = trees[1].Depth
    /\ trees[1].Depth = 2

\* C17. Leaf index excludes padding: after treeBuild the keys of the leaf
\* index are exactly Leaves[0..n-1], each mapped to a position in 0..n-1 that
\* holds it; the slot n that fixOdd appended is no value, and a random dummy
\* is no key.
C17_IndexExcludesPadding ==
    (Built /\ ~trees[1].err /\ cfg.Mode \in {ModeTreeBuild, ModeProofGenAndTreeBuild}) =>
       LET t == trees[1]
           n == Len(t.Leaves)
       IN /\ DOMAIN t.leafMap = {t.Leaves[i] : i \in 1..n}
          /\ \A key \in DOMAIN t.leafMap :
                /\ t.leafMap[key] \in 0..(n - 1)
                /\ At(t.Leaves, t.leafMap[key]) = key
          /\ \A k \in 1..NumDummies : getDummyHash(k) \notin DOMAIN t.leafMap

\* A stored tree of three leaves whose leaf level was padded with a dummy.
C17_Witness ==
    /\ Built
    /\ cfg.Mode = ModeTreeBuild
    /\ cfg.NoDuplicates
    /\ Len(trees[1].Leaves) = 3
    /\ Len(trees[1].tree[1]) = 4
    /\ trees[1].tree[1][4] = getDummyHash(1)
    /\ Cardinality(DOMAIN trees[1].leafMap) = 3

\* The number of entries of s that equal x.
Count(s, x) == Cardinality({i \in 1..Len(s) : s[i] = x})

NewKeepsConfig == (pc[1] = "start" /\ pc'[1] = "done") => cfg' = cfg

\* The step is no call of GenerateProof or Verify on the tree that returns
\* other than the call returns under the Config the tree was built with.
CallsUseBuildConfig ==
    /\ (call' # call /\ call'.op = "GenerateProof")
       => LET g == GenerateProof(trees[1].Config, trees[1], call'.block)
          IN /\ call'.err = g.err /\ call'.miss = g.miss /\ call'.panic = g.panic
             /\ call'.Siblings = g.Siblings /\ call'.Path = g.Path
    /\ (call' # call /\ call'.op = "VerifyStreamed")
       => LET v == Verify([blockNil |-> FALSE, proofNil |-> FALSE,
                           block |-> call'.block, Siblings |-> call'.Siblings,
                           Path |-> call'.Path, root |-> call'.root,
                           hashFunc |-> trees[1].Config.HashFunc])
          IN call'.ok = v.ok /\ call'.err = v.err

\* C19. Configuration is frozen per tree: New does not modify the Config the
\* caller passed, and whatever the caller does to that Config afterwards,
\* GenerateProof and Verify on the tree return what they return under the
\* Config the tree was built with.
C19_ConfigFrozen == [][NewKeepsConfig /\ CallsUseBuildConfig]_vars

\* The parent of the pair (a, b) by the rule: a itself when the two are the
\* same bytes, otherwise the hash of the smaller followed by the larger with
\* SortPairs, and of a followed by b without it.
RuleParent(c, a, b) ==
    IF a = b THEN a
    ELSE IF c.SortPairs /\ Compare(b, a) < 0 THEN H(b \o a)
    ELSE H(a \o b)

\* C20. Pair-combination rule at every level: in the tree treeBuild stores,
\* the parent of every pair of every level 0..Depth-1 is the one the rule
\* gives, the parent of the one pair of the last level being Root.
C20_PairRuleAtEveryLevel ==
    (Built /\ ~trees[1].err /\ cfg.Mode \in {ModeTreeBuild, ModeProofGenAndTreeBuild}) =>
       LET t == trees[1]
       IN \A i \in 1..t.Depth : \A k \in 1..(Len(t.tree[i]) \div 2) :
             LET parent == IF i = t.Depth THEN t.Root ELSE t.tree[i + 1][k]
             IN parent = RuleParent(cfg, t.tree[i][2 * k - 1], t.tree[i][2 * k])

\* C21. Even-length levels: in the tree treeBuild stores, every level
\* 0..Depth-1 has even length once fixOdd has been applied to it, and level
\* i+1 before its own fixOdd has half the length of level i after fixOdd
\* (so after it, that half made even).
C21_EvenLevels ==
    (Built /\ ~trees[1].err /\ cfg.Mode \in {ModeTreeBuild, ModeProofGenAndTreeBuild}) =>
       LET t == trees[1]
       IN /\ Len(t.tree) = t.Depth
          /\ \A i \in 1..t.Depth : Len(t.tree[i]) % 2 = 0
          /\ \A i \in 1..(t.Depth - 1) :
                LET half == Len(t.tree[i]) \div 2
                IN Len(t.tree[i + 1]) = half + (half % 2)

\* A tree of five leaves with dummies: the leaf level is padded to six, and
\* the level above it, of three nodes, to four.
C21_Witness ==
    /\ Built
    /\ cfg.Mode = ModeTreeBuild
    /\ cfg.NoDuplicates
    /\ Len(blocks) = 5
    /\ Len(trees[1].tree[1]) = 6
    /\ Len(trees[1].tree[2]) = 4
    /\ Len(trees[1].tree[3]) = 2

\* The position of the sibling of the node at position x of its level.
SiblingOf(x) == IF x % 2 = 1 THEN x - 1 ELSE x + 1

\* The proof pr has one sibling per level of t, sibling k being the node of
\* level k next to the ancestor of the leaf at position idx.
OnePerLevel(t, pr, idx) ==
    /\ Len(pr.Siblings) = t.Depth
    /\ \A k \in 0..(t.Depth - 1) :
          At(pr.Siblings, k) = At(At(LevelsOf(t), k), SiblingOf(idx \div Pow2(k)))

\* C22. Proof length: every proof the tree produces has exactly Depth
\* siblings, one per level 0..Depth-1 in ascending order of the levels: the
\* entries of Proofs after New in ModeProofGen and ModeProofGenAndTreeBuild,
\* whatever the number of leaves and the padding, and the proofs
\* GenerateProof returns.
C22_ProofLength ==
    (Built /\ ~trees[1].err) =>
       LET t == trees[1]
       IN /\ cfg.Mode \in {ModeProofGen, ModeProofGenAndTreeBuild}
             => /\ Len(t.Proofs) = Len(blocks)
                /\ \A p \in 1..Len(t.Proofs) : OnePerLevel(t, t.Proofs[p], p - 1)
          /\ (call.op = "GenerateProof" /\ call.ok)
             => OnePerLevel(t, [Siblings |-> call.Siblings],
                            t.leafMap[LookupKey(call.block)])

\* Five leaves and a proof returned by GenerateProof for the last of them,
\* whose sibling at level 1 is the node fixOdd appended there.
C22_Witness ==
    /\ Built
    /\ cfg.Mode = ModeProofGenAndTreeBuild
    /\ Len(blocks) = 5
    /\ Len(trees[1].Proofs[5].Siblings) = 3
    /\ call.op = "GenerateProof"
    /\ call.ok
    /\ trees[1].leafMap[LookupKey(call.block)] = 4
    /\ call.Siblings[2] = trees[1].tree[2][4]

\* C23. Index join before lookups: whenever New has returned a tree in
\* ModeTreeBuild or ModeProofGenAndTreeBuild, with an error or without, the
\* goroutine that fills the leaf index has stored every leaf and ended, so
\* that no lookup of GenerateProof sees a part of the index.
C23_IndexJoined ==
    (/\ pc[1] = "done"
     /\ ~trees[1].nil
     /\ cfg.Mode \in {ModeTreeBuild, ModeProofGenAndTreeBuild})
    => /\ build.gor = "exited"
       /\ build.stored = Len(trees[1].Leaves)
       /\ DOMAIN trees[1].leafMap = {trees[1].Leaves[i] : i \in 1..Len(trees[1].Leaves)}

\* Every worker has left its loop without error.
PoolDone ==
    /\ pool.kind # "none"
    /\ ~pool.panic
    /\ pool.errs = {}
    /\ \A k \in 1..pool.N : pool.at[k] >= pool.len

\* C24. Parallel level hashing equals sequential: for every level, every
\* number of workers and every Config, the workers of treeBuildHandler
\* (start 2k, stride 2N) fill the next level with the values the loop of
\* treeBuild computes for it, and those of leafGenHandler produce the leaves
\* leafGen produces.
C24_HandlersEqualSequential ==
    PoolDone =>
       /\ pool.kind = "treeBuild" => pool.out = treeBuildLevel(cfg, pool.buf).next
       /\ pool.kind = "leafGen" => pool.out = leafGen(cfg, pool.buf).leaves

\* C25. Disjoint worker writes: with worker k starting at pair 2k and
\* stepping by 2N, in every interleaving no two workers of proofGenHandler or
\* treeBuildHandler write the same slot of the next-level buffer and no two
\* workers of updateProofHandler append to the Proof of the same leaf, and
\* the level and the proofs that result are those one pass over the pairs
\* in order gives, whatever the interleaving.
C25_DisjointWrites ==
    pool.kind \in {"treeBuild", "proofGen", "updateProof"} =>
       /\ \A j \in 1..Len(pool.writes) : Cardinality(pool.writes[j]) <= 1
       /\ \A l \in 1..Len(pool.appends) : Cardinality(pool.appends[l]) <= 1
       /\ (PoolDone /\ pool.kind # "updateProof")
          => pool.out = [j \in 1..(Len(pool.buf) \div 2) |->
                           H(pool.buf[2 * j - 1] \o pool.buf[2 * j])]
       /\ (PoolDone /\ pool.kind = "updateProof")
          => pool.Proofs = updateProofs(pool.Proofs0, pool.buf, pool.len, pool.step)

\* Two workers of updateProofHandler have left their loops on level 1 of
\* the tree of six leaves, each having appended to the proofs of its pair.
C25_Witness ==
    /\ PoolDone
    /\ pool.kind = "updateProof"
    /\ pool.N = 2
    /\ pool.step = 1
    /\ Len(pool.Proofs) = 6
    /\ pool.appends[1] = {0}
    /\ pool.appends[5] = {1}
    /\ Len(pool.Proofs[5].Siblings) = 2

\* C26. The goroutine that treeBuild starts to fill the leaf index always
\* ends: in every execution of treeBuild, those that return early on a
\* failure of the hash function or of fixOdd included, its send on finishMap
\* is received in the end and the goroutine exits.
C26_PopulatorEnds == (build.gor = "storing") ~> (build.gor = "exited")

\* New without a draw of the random source, every leaf stored.
NoDraws == [dummy |-> <<>>, stored |-> Len(blocks)]

\* C27. Root is independent of mode: for the same blocks and the same Config
\* with NoDuplicates = false, the Root New computes in ModeProofGen is the
\* Root it computes in ModeTreeBuild and in ModeProofGenAndTreeBuild.
C27_RootIndependentOfMode ==
    (Built /\ ~trees[1].err /\ ~cfg.NoDuplicates) =>
       \A mode \in {ModeProofGen, ModeTreeBuild, ModeProofGenAndTreeBuild} :
          New([cfg EXCEPT !.Mode = mode], blocks, NoDraws).Root = trees[1].Root

\* C28. Streaming proofs are consistent with the tree they came from: in
\* ModeProofGen and ModeProofGenAndTreeBuild, for every leaf position i, the
\* fold of Proofs[i].Siblings by the bits of Proofs[i].Path from the leaf
\* Leaves[i] itself, not hashed, is Root.
C28_StreamedProofsReachRoot ==
    (Built /\ ~trees[1].err /\ cfg.Mode \in {ModeProofGen, ModeProofGenAndTreeBuild}) =>
       \A i \in 1..Len(trees[1].Leaves) :
          VerifyFold(trees[1].Leaves[i], trees[1].Proofs[i].Path,
                     trees[1].Proofs[i].Siblings) = trees[1].Root

\* The highest position of the value x in the sequence s, counted from 0.
LastPosition(s, x) == CHOOSE i \in 0..(Len(s) - 1) :
                         At(s, i) = x /\ \A j \in 0..(Len(s) - 1) : At(s, j) = x => j <= i

\* C29. Duplicate leaf values resolve deterministically: when two or more
\* blocks serialize to the same bytes, after New has returned the leaf index
\* maps that value to the highest of their positions in Leaves, in every
\* interleaving of the goroutine that fills the index with the building of
\* the levels, and GenerateProof for such a block returns the proof of that
\* position.
C29_LastWriteWins ==
    (pc[1] = "done" /\ ~trees[1].err) =>
       LET t == trees[1]
       IN /\ \A i \in 1..Len(t.Leaves) :
                /\ t.Leaves[i] \in DOMAIN t.leafMap
                /\ t.leafMap[t.Leaves[i]] = LastPosition(t.Leaves, t.Leaves[i])
          /\ (/\ call.op = "GenerateProof"
              /\ Count(blocks, call.block) >= 2)
             => /\ call.ok
                /\ OnePerLevel(t, [Siblings |-> call.Siblings],
                               LastPosition(t.Leaves, call.block))

\* C30. Index safety: for every number of leaves and either policy, the
\* last level, from which Root is computed, has exactly two nodes, every
\* level the builders pair up has an even number of nodes, at least two (so
\* that buf[idx+1] and tree[i][j+1] exist), and the walk of GenerateProof
\* from every leaf position 0..n-1 finds its sibling inside the level.
C30_IndexSafety ==
    (Built /\ ~trees[1].err) =>
       LET t == trees[1]
           L == LevelsOf(t)
       IN /\ Len(L) = t.Depth
          /\ Len(L[t.Depth]) = 2
          /\ \A i \in 1..t.Depth : Len(L[i]) % 2 = 0 /\ Len(L[i]) >= 2
          /\ Len(t.tree) > 0
             => \A idx \in 0..(Len(t.Leaves) - 1) :
                   /\ ~GenerateProofLoop(t, idx, 0, {}, <<>>).panic
                   /\ Len(GenerateProofLoop(t, idx, 0, {}, <<>>).Siblings) = t.Depth

\* A stored tree of five leaves: the walk from the last leaf reads the node
\* fixOdd appended to level 0, and the last level has two nodes.
C30_Witness ==
    /\ Built
    /\ cfg.Mode = ModeTreeBuild
    /\ ~cfg.NoDuplicates
    /\ Len(blocks) = 5
    /\ Len(trees[1].tree[3]) = 2
    /\ GenerateProofLoop(trees[1], 4, 0, {}, <<>>).Siblings[1] = trees[1].tree[1][6]

====
